---- MODULE Spec2Model ----
(***************************************************************************)
(* The RCON connection registry (RconProvider) and the server status       *)
(* registry (ServerStateProvider) of the allay-app front end, as state     *)
(* machines.  Every asynchronous function is a task that advances from one  *)
(* gateway call (a Tauri invoke, a suspension point) to the next; the code  *)
(* between two awaits is one atomic step.  State held by React is split     *)
(* into the state itself (what the functional setState updaters see) and    *)
(* the value captured by the closures of the last committed render.         *)
(***************************************************************************)
EXTENDS Integers, Sequences, FiniteSets, TLC

\* ---------------------------------------------------------------- bounds
MaxTasks == 2      \* asynchronous calls in flight at the same time
MaxOps == 2        \* operations invoked in one behaviour

\* ---------------------------------------------------------------- inputs
Servers == {"s1", "s2"}
Errors == {"ECONNREFUSED", "ETIMEDOUT"}
Passwords == {"abc123"}
Responses == {"", "pong"}
LoaderTypes == {"vanilla"}

Null == "null"

DEFAULT_RCON_CONFIG == [host |-> "127.0.0.1", port |-> 25575, password |-> "minecraft"]

CustomConfig == [host |-> "10.0.0.5", port |-> 25576, password |-> "custom"]

Configs == {DEFAULT_RCON_CONFIG, CustomConfig}

\* ------------------------------------------------------- the registry map
\* A Map<string, RconConnection> is the sequence of its entries in insertion
\* order; every entry carries its key in serverName.
Names(conns) == {conns[i].serverName : i \in DOMAIN conns}

Has(conns, serverName) == serverName \in Names(conns)

IndexOf(conns, serverName) == CHOOSE i \in DOMAIN conns : conns[i].serverName = serverName

Get(conns, serverName) == conns[IndexOf(conns, serverName)]

DefaultConnection(serverName) ==
    [serverName |-> serverName, isConnected |-> FALSE, isConnecting |-> FALSE,
     error |-> Null, config |-> DEFAULT_RCON_CONFIG]

\* variant: the given fields are laid over the defaults, not over the entry
MergeOverDefaults(existing, updates) ==
    updates @@ [serverName |-> existing.serverName, isConnected |-> FALSE,
                isConnecting |-> FALSE, error |-> Null, config |-> DEFAULT_RCON_CONFIG]

\* {...existing, ...updates}: the fields of updates win
Merge(existing, updates) == updates @@ existing

\* variant: a new entry is the bare default, the given fields are dropped
updateConnectionBareDefault(conns, serverName, updates) ==
    IF Has(conns, serverName)
    THEN [conns EXCEPT ![IndexOf(conns, serverName)] = Merge(@, updates)]
    ELSE Append(conns, DefaultConnection(serverName))

updateConnection(conns, serverName, updates) ==
    IF Has(conns, serverName)
    THEN [conns EXCEPT ![IndexOf(conns, serverName)] = Merge(@, updates)]
    ELSE Append(conns, Merge(DefaultConnection(serverName), updates))

getConnection(conns, serverName) ==
    IF Has(conns, serverName) THEN <<Get(conns, serverName)>> ELSE <<>>

isConnected(conns, serverName) ==
    IF Has(conns, serverName) THEN Get(conns, serverName).isConnected ELSE FALSE

isConnecting(conns, serverName) ==
    IF Has(conns, serverName) THEN Get(conns, serverName).isConnecting ELSE FALSE

getError(conns, serverName) ==
    IF Has(conns, serverName) THEN Get(conns, serverName).error ELSE Null

\* ------------------------------------------------------ gateway answers
\* An answer of the command gateway: ok = the promise resolved; bool / str
\* carry the resolved value, err the rejection.
Resolve(b, s) == [ok |-> TRUE, bool |-> b, str |-> s, err |-> ""]

Reject(e) == [ok |-> FALSE, bool |-> FALSE, str |-> "", err |-> e]

Rejections == {Reject(e) : e \in Errors}

Ack == {Resolve(FALSE, "")} \cup Rejections

BoolAnswers == {Resolve(b, "") : b \in BOOLEAN} \cup Rejections

Answers(call) ==
    CASE call = "get_server_rcon_password" -> {Resolve(FALSE, p) : p \in Passwords} \cup Rejections
      [] call = "setup_rcon_for_server" -> Ack
      [] call = "connect_rcon" -> Ack
      [] call = "is_rcon_connected" -> BoolAnswers
      [] call = "disconnect_rcon" -> Ack
      [] call = "execute_rcon_command" -> {Resolve(FALSE, r) : r \in Responses} \cup Rejections
      [] call = "is_server_running" -> BoolAnswers
      [] call = "get_server_loader_type" -> {Resolve(FALSE, l) : l \in LoaderTypes} \cup Rejections
      [] call = "start_server" -> Ack
      [] call = "stop_server" -> Ack

\* useRcon: useState(false), useState(false), useState<string | null>(null)
HookInit == [isConnected |-> FALSE, isConnecting |-> FALSE, error |-> Null]

NoCalls == [provider |-> <<>>, hook |-> <<>>]

\* the Terminal is mounted for one server
TerminalServer == "s1"

TerminalLine(id, content, type) == [id |-> id, content |-> content, type |-> type]

\* the mount effect: setLines([welcomeLine]); the id of a line is kept as its
\* prefix and its timestamp is left out, both come from the clock
welcomeLine == TerminalLine("welcome", "Terminal instance for: " \o TerminalServer, "system")

TerminalInit == [lines |-> <<welcomeLine>>, twin |-> <<welcomeLine>>]

\* ---------------------------------------------------------------- state
VARIABLES
    connections,   \* RconProvider: the state behind useState(new Map())
    rendered,      \* the connections value captured by the closures of the last render
    servers,       \* ServerStateProvider: Record<string, ServerStatus>
    tasks,         \* the asynchronous calls in flight, oldest first
    ops,           \* operations invoked so far
    ev,            \* the step just taken
    hook,          \* useRcon: its isConnected, isConnecting and error states
    made,          \* the gateway calls the last operation made, per variant
    terminal       \* Terminal: the lines state, and that of a twin run

vars == <<connections, rendered, servers, tasks, ops, ev, hook, made, terminal>>

\* the calls in flight, oldest first
Slots == DOMAIN tasks

IdleTask ==
    [op |-> "none", server |-> "", pc |-> "", cfg |-> DEFAULT_RCON_CONFIG,
     given |-> DEFAULT_RCON_CONFIG, fetched |-> "",
     snap |-> <<>>, idx |-> 0, solo |-> TRUE]

HasFree == Len(tasks) < MaxTasks

\* the call in slot t has settled
Settle(tt, t) == SubSeq(tt, 1, t - 1) \o SubSeq(tt, t + 1, Len(tt))

RconOps == {"connect", "disconnect", "executeCommand", "monitor"}

StatusOps == {"start", "stop", "setServerStatus"}

\* the servers of the same registry whose state a task in flight may still write
Touches(task, serverName) ==
    CASE task.op = "none" -> FALSE
      [] task.op = "monitor" ->
            \E i \in DOMAIN task.snap :
                i >= task.idx /\ task.snap[i].serverName = serverName /\ task.snap[i].isConnected
      [] OTHER -> task.server = serverName

Family(op) == IF op \in StatusOps THEN StatusOps ELSE RconOps

\* no other call of the same registry is in flight on serverName
Alone(op, serverName) ==
    \A t \in Slots : ~(tasks[t].op \in Family(op) /\ Touches(tasks[t], serverName))

\* a call on serverName starts: the calls in flight on it are no longer alone
Disturb(tt, op, serverName) ==
    [t \in DOMAIN tt |->
        IF tt[t].op \in Family(op) /\ Touches(tt[t], serverName)
        THEN [tt[t] EXCEPT !.solo = FALSE] ELSE tt[t]]

NoAnswer == Resolve(FALSE, "")

Event(kind, op, serverName, call, answer, issued, outcome, value, solo) ==
    [kind |-> kind, op |-> op, server |-> serverName, call |-> call, answer |-> answer,
     issued |-> issued, outcome |-> outcome, value |-> value, solo |-> solo,
     before |-> getConnection(connections, serverName),
     seen |-> getConnection(rendered, serverName),
     cfg |-> DEFAULT_RCON_CONFIG, given |-> DEFAULT_RCON_CONFIG, fetched |-> ""]

\* the step of a connect: its config parameter, the password it fetched ("" when
\* the fetch failed or is still to come) and its dynamicConfig after the step
ConnectEvent(e, task) ==
    [e EXCEPT !.cfg = task.cfg, !.given = task.given, !.fetched = task.fetched]

Init ==
    /\ connections = <<>>
    /\ rendered = <<>>
    /\ servers = <<>>
    /\ tasks = <<>>
    /\ ops = 0
    /\ ev = Event("init", "none", "", "", NoAnswer, "", "", "", TRUE)
    /\ hook = HookInit
    /\ made = NoCalls
    /\ terminal = TerminalInit

\* ------------------------------------------------------------ rendering
\* React commits a render: the closures handed to callers and the interval
\* of the monitor effect now see the current map.
Render ==
    /\ UNCHANGED <<hook, made, terminal>>
    /\ rendered # connections
    /\ rendered' = connections
    /\ ev' = Event("render", "none", "", "", NoAnswer, "", "", "", TRUE)
    /\ UNCHANGED <<connections, servers, tasks, ops>>

\* ---------------------------------------------------------------- connect
\* `if (existing?.isConnecting) return;` reads the map of the closure
connectGuard(snap, serverName) == isConnecting(snap, serverName)

\* variant: a new attempt first marks the server disconnected
connectStartUpdatesDropsConnected ==
    [isConnected |-> FALSE, isConnecting |-> TRUE, error |-> Null]

connectStartUpdates == [isConnecting |-> TRUE, error |-> Null]

getServerRconPassword(answer) ==
    IF answer.ok THEN answer.str ELSE DEFAULT_RCON_CONFIG.password

\* variant: the raw rejection is stored without the prefix
connectErrorMsgRaw(err) == err

connectErrorMsg(err) == "Failed to connect to RCON: " \o err

\* variant: connect trusts connect_rcon and ignores the is_rcon_connected answer
\* variant: an answer of false is recorded as a failed connect
connectSuccessUpdatesFalseIsError(connected, dynamicConfig) ==
    [isConnected |-> connected, isConnecting |-> FALSE,
     error |-> IF connected THEN Null ELSE connectErrorMsg("not connected"),
     config |-> dynamicConfig]

connectSuccessUpdatesAssumeConnected(connected, dynamicConfig) ==
    [isConnected |-> TRUE, isConnecting |-> FALSE, error |-> Null,
     config |-> dynamicConfig]

connectSuccessUpdates(connected, dynamicConfig) ==
    [isConnected |-> connected, isConnecting |-> FALSE, error |-> Null,
     config |-> dynamicConfig]

\* variant: the catch block forgets to clear isConnecting
connectFailureUpdatesKeepConnecting(err) ==
    [isConnected |-> FALSE, error |-> connectErrorMsg(err)]

connectFailureUpdates(err) ==
    [isConnected |-> FALSE, isConnecting |-> FALSE, error |-> connectErrorMsg(err)]

ConnectInvoke ==
    /\ UNCHANGED <<hook, made, terminal>>
    /\ \E serverName \in Servers, config \in Configs :
        /\ ops < MaxOps
        /\ HasFree
        /\ ops' = ops + 1
        /\ UNCHANGED <<rendered, servers>>
        /\ IF connectGuard(rendered, serverName)
           THEN /\ ev' = Event("invoke", "connect", serverName, "", NoAnswer, "",
                               "returned", "", Alone("connect", serverName))
                /\ UNCHANGED <<connections, tasks>>
           ELSE /\ connections' = updateConnection(connections, serverName, connectStartUpdates)
                /\ tasks' = Append(Disturb(tasks, "connect", serverName),
                                [IdleTask EXCEPT !.op = "connect", !.server = serverName,
                                                 !.pc = "get_server_rcon_password",
                                                 !.cfg = config, !.given = config,
                                                 !.solo = Alone("connect", serverName)])
                /\ ev' = ConnectEvent(Event("invoke", "connect", serverName, "", NoAnswer,
                                            "get_server_rcon_password", "pending", "",
                                            Alone("connect", serverName)),
                                      [IdleTask EXCEPT !.cfg = config, !.given = config])

\* variant: connect_rcon is tried before the server is configured
ConnectNextConnectsFirst(pc) ==
    CASE pc = "get_server_rcon_password" -> "connect_rcon"
      [] pc = "connect_rcon" -> "setup_rcon_for_server"
      [] pc = "setup_rcon_for_server" -> "is_rcon_connected"
      [] pc = "is_rcon_connected" -> ""

\* the call awaited by task t is answered and the task runs to its next await
ConnectNext(pc) ==
    CASE pc = "get_server_rcon_password" -> "setup_rcon_for_server"
      [] pc = "setup_rcon_for_server" -> "connect_rcon"
      [] pc = "connect_rcon" -> "is_rcon_connected"
      [] pc = "is_rcon_connected" -> ""

\* variant: the password of the config parameter is kept, the fetched one dropped
connectFetchedKeepsGiven(task, answer) ==
    [task EXCEPT !.pc = ConnectNext(task.pc),
                 !.fetched = IF answer.ok THEN answer.str ELSE ""]

\* `const password = await getServerRconPassword(serverName);
\*  const dynamicConfig = { ...config, password };` then setupRcon is called
connectFetched(task, answer) ==
    [task EXCEPT !.pc = ConnectNext(task.pc),
                 !.fetched = IF answer.ok THEN answer.str ELSE "",
                 !.cfg = [task.given EXCEPT !.password = getServerRconPassword(answer)]]

ConnectResume ==
    /\ UNCHANGED <<hook, made, terminal>>
    /\ \E t \in Slots :
        /\ tasks[t].op = "connect"
        /\ \E answer \in Answers(tasks[t].pc) :
            LET task == tasks[t]
                n == task.server
            IN  /\ UNCHANGED <<rendered, servers, ops>>
                /\ IF task.pc = "get_server_rcon_password"
                   THEN \* a failed fetch is caught inside getServerRconPassword
                        /\ tasks' = [tasks EXCEPT ![t] = connectFetched(task, answer)]
                        /\ ev' = ConnectEvent(Event("resume", "connect", n, task.pc, answer,
                                                    ConnectNext(task.pc), "pending", "",
                                                    task.solo),
                                              connectFetched(task, answer))
                        /\ UNCHANGED connections
                   ELSE IF ~answer.ok
                   THEN /\ connections' = updateConnection(connections, n,
                                                           connectFailureUpdates(answer.err))
                        /\ tasks' = Settle(tasks, t)
                        /\ ev' = ConnectEvent(Event("resume", "connect", n, task.pc, answer,
                                                    "", "threw", answer.err, task.solo), task)
                   ELSE IF task.pc = "is_rcon_connected"
                   THEN /\ connections' = updateConnection(connections, n,
                                              connectSuccessUpdates(answer.bool, task.cfg))
                        /\ tasks' = Settle(tasks, t)
                        /\ ev' = ConnectEvent(Event("resume", "connect", n, task.pc, answer,
                                                    "", "returned", "", task.solo), task)
                   ELSE /\ tasks' = [tasks EXCEPT ![t].pc = ConnectNext(task.pc)]
                        /\ ev' = ConnectEvent(Event("resume", "connect", n, task.pc, answer,
                                                    ConnectNext(task.pc), "pending", "",
                                                    task.solo), task)
                        /\ UNCHANGED connections

\* ------------------------------------------------------------- disconnect
disconnectErrorMsg(err) == "Failed to disconnect from RCON: " \o err

\* variant: a successful disconnect only clears the error
disconnectSuccessUpdatesKeepsConnected == [error |-> Null]

disconnectSuccessUpdates == [isConnected |-> FALSE, error |-> Null]

\* variant: a failed disconnect also marks the server disconnected
disconnectFailureUpdatesDropsConnection(err) ==
    [isConnected |-> FALSE, error |-> disconnectErrorMsg(err)]

disconnectFailureUpdates(err) == [error |-> disconnectErrorMsg(err)]

\* the body of disconnect once disconnect_rcon is answered; it never rethrows
disconnect(conns, serverName, answer) ==
    IF answer.ok
    THEN updateConnection(conns, serverName, disconnectSuccessUpdates)
    ELSE updateConnection(conns, serverName, disconnectFailureUpdates(answer.err))

\* variant: the catch block of disconnect rethrows
disconnectOutcomeRethrows(answer) == IF answer.ok THEN "returned" ELSE "threw"

\* how disconnect ends: its catch block logs and falls through
disconnectOutcome(answer) == "returned"

DisconnectInvoke ==
    /\ UNCHANGED <<hook, made, terminal>>
    /\ \E serverName \in Servers :
        /\ ops < MaxOps
        /\ HasFree
        /\ ops' = ops + 1
        /\ tasks' = Append(Disturb(tasks, "disconnect", serverName),
                        [IdleTask EXCEPT !.op = "disconnect", !.server = serverName,
                                         !.pc = "disconnect_rcon",
                                         !.solo = Alone("disconnect", serverName)])
        /\ ev' = Event("invoke", "disconnect", serverName, "", NoAnswer,
                       "disconnect_rcon", "pending", "", Alone("disconnect", serverName))
        /\ UNCHANGED <<connections, rendered, servers>>

DisconnectResume ==
    /\ UNCHANGED <<hook, made, terminal>>
    /\ \E t \in Slots :
        /\ tasks[t].op = "disconnect"
        /\ \E answer \in Answers(tasks[t].pc) :
            /\ connections' = disconnect(connections, tasks[t].server, answer)
            /\ tasks' = Settle(tasks, t)
            /\ ev' = Event("resume", "disconnect", tasks[t].server, tasks[t].pc, answer, "",
                           disconnectOutcome(answer), "", tasks[t].solo)
            /\ UNCHANGED <<rendered, servers, ops>>

\* --------------------------------------------------------- executeCommand
executeErrorMsg(err) == "Failed to execute RCON command: " \o err

executeStartUpdates == [error |-> Null]

executeFailureUpdates(err) == [error |-> executeErrorMsg(err)]

\* the registry after execute_rcon_command is answered
executeCommand(conns, serverName, answer) ==
    IF answer.ok
    THEN conns
    ELSE updateConnection(conns, serverName, executeFailureUpdates(answer.err))

\* the command text is handed to the gateway unread: the registry depends only
\* on whether execute_rcon_command resolves or rejects
ExecuteInvoke ==
    /\ UNCHANGED <<hook, made, terminal>>
    /\ \E serverName \in Servers :
        /\ ops < MaxOps
        /\ HasFree
        /\ ops' = ops + 1
        /\ connections' = updateConnection(connections, serverName, executeStartUpdates)
        /\ tasks' = Append(Disturb(tasks, "executeCommand", serverName),
                        [IdleTask EXCEPT !.op = "executeCommand", !.server = serverName,
                                         !.pc = "execute_rcon_command",
                                         !.solo = Alone("executeCommand", serverName)])
        /\ ev' = Event("invoke", "executeCommand", serverName, "", NoAnswer,
                       "execute_rcon_command", "pending", "",
                       Alone("executeCommand", serverName))
        /\ UNCHANGED <<rendered, servers>>

ExecuteResume ==
    /\ UNCHANGED <<hook, made, terminal>>
    /\ \E t \in Slots :
        /\ tasks[t].op = "executeCommand"
        /\ \E answer \in Answers(tasks[t].pc) :
            /\ connections' = executeCommand(connections, tasks[t].server, answer)
            /\ tasks' = Settle(tasks, t)
            /\ ev' = Event("resume", "executeCommand", tasks[t].server, tasks[t].pc, answer, "",
                           IF answer.ok THEN "returned" ELSE "threw",
                           IF answer.ok THEN answer.str ELSE answer.err, tasks[t].solo)
            /\ UNCHANGED <<rendered, servers, ops>>

\* --------------------------------------------------------- health monitor
\* variant: the loop checks every entry, connected or not
NextConnectedOrNot(snap, from) ==
    IF \E i \in DOMAIN snap : i >= from
    THEN CHOOSE i \in DOMAIN snap :
            /\ i >= from
            /\ \A j \in DOMAIN snap : j >= from => i <= j
    ELSE 0

\* the next entry of the iterated map, from index from on, that passes
\* `if (connection.isConnected)`; 0 when the loop is over
NextConnected(snap, from) ==
    IF \E i \in DOMAIN snap : i >= from /\ snap[i].isConnected
    THEN CHOOSE i \in DOMAIN snap :
            /\ i >= from /\ snap[i].isConnected
            /\ \A j \in DOMAIN snap : (j >= from /\ snap[j].isConnected) => i <= j
    ELSE 0

\* checkServerRunning: a failed query is caught and reported as "not running"
checkServerRunning(answer) == IF answer.ok THEN answer.bool ELSE FALSE

\* variant: a stopped server is only re-queried, never disconnected
monitorNextCallFlagOnly(isRunning) == "is_rcon_connected"

\* `if (!isRunning) await disconnect(serverName); else ... invoke('is_rcon_connected')`
monitorNextCall(isRunning) ==
    IF ~isRunning THEN "disconnect_rcon" ELSE "is_rcon_connected"

\* variant: the answer of is_rcon_connected is only logged
monitorStillConnectedLogOnly(conns, connection, answer) == conns

\* the interval callback after is_rcon_connected is answered for an entry
monitorStillConnected(conns, connection, answer) ==
    IF answer.ok /\ answer.bool # connection.isConnected
    THEN updateConnection(conns, connection.serverName, [isConnected |-> answer.bool])
    ELSE conns

\* the task after the body of the loop ran for entry idx of its map
MonitorAdvance(task) ==
    LET i == NextConnected(task.snap, task.idx + 1)
    IN  IF i = 0 THEN IdleTask
        ELSE [task EXCEPT !.idx = i, !.server = task.snap[i].serverName,
                          !.pc = "is_server_running"]

\* the interval callback up to its first await
MonitorStart ==
    /\ UNCHANGED <<hook, made, terminal>>
    /\ HasFree
    /\ UNCHANGED <<connections, rendered, servers>>
    /\ LET i == NextConnected(rendered, 1)
       IN  IF i = 0
           THEN /\ ev' = Event("invoke", "monitor", "", "", NoAnswer, "", "returned", "", TRUE)
                /\ UNCHANGED tasks
           ELSE LET n == rendered[i].serverName
                    started == [IdleTask EXCEPT !.op = "monitor", !.server = n,
                                                !.pc = "is_server_running",
                                                !.snap = rendered, !.idx = i,
                                                !.solo = Alone("monitor", n)]
                IN  /\ tasks' = Append(Disturb(tasks, "monitor", n), started)
                    /\ ev' = Event("invoke", "monitor", n, "", NoAnswer,
                                   "is_server_running", "pending", "", started.solo)

MonitorTick ==
    /\ ops < MaxOps
    /\ ops' = ops + 1
    /\ MonitorStart

\* the call awaited by the interval callback t is answered
MonitorAnswered(t, answer) ==
    LET task == tasks[t]
        n == task.server
        after == MonitorAdvance(task)
        done == IF after.op = "none" THEN "returned" ELSE "pending"
        issued == IF after.op = "none" THEN "" ELSE after.pc
    IN  /\ UNCHANGED <<rendered, servers, ops, hook, made, terminal>>
        /\ IF task.pc = "is_server_running"
           THEN /\ UNCHANGED connections
                /\ tasks' = [tasks EXCEPT ![t].pc =
                                monitorNextCall(checkServerRunning(answer))]
                /\ ev' = Event("resume", "monitor", n, task.pc, answer,
                               monitorNextCall(checkServerRunning(answer)),
                               "pending", "", task.solo)
           ELSE /\ connections' =
                        IF task.pc = "disconnect_rcon"
                        THEN disconnect(connections, n, answer)
                        ELSE monitorStillConnected(connections, task.snap[task.idx], answer)
                /\ tasks' = IF after.op = "none" THEN Settle(tasks, t)
                            ELSE [tasks EXCEPT ![t] = after]
                /\ ev' = Event("resume", "monitor", n, task.pc, answer, issued,
                               done, "", task.solo)

MonitorResume ==
    \E t \in Slots :
        /\ tasks[t].op = "monitor"
        /\ \E answer \in Answers(tasks[t].pc) : MonitorAnswered(t, answer)

\* ------------------------------------------------- server status registry
\* servers[serverName] ?? 'offline'
getServerStatus(srv, serverName) ==
    IF serverName \in DOMAIN srv THEN srv[serverName] ELSE "offline"

\* variant: the new record holds the given server only
setServerStatusAlone(srv, serverName, status) == [x \in {serverName} |-> status]

\* setServers(prev => ({...prev, [serverName]: status}))
setServerStatus(srv, serverName, status) ==
    [x \in DOMAIN srv \cup {serverName} |-> IF x = serverName THEN status ELSE srv[x]]

\* startServer up to its first await
startServerBegin(srv, serverName) == setServerStatus(srv, serverName, "online")

\* variant: a failed start leaves the optimistic status in place
startServerAnsweredNoRevert(srv, serverName, answer) == srv

\* startServer once get_server_loader_type or start_server is answered
startServerAnswered(srv, serverName, answer) ==
    IF answer.ok THEN srv ELSE setServerStatus(srv, serverName, "offline")

\* stopServer up to its await
stopServerBegin(srv, serverName) == setServerStatus(srv, serverName, "offline")

\* variant: a failed stop reverts the status the way a failed start does
stopServerAnsweredRevert(srv, serverName, answer) ==
    IF answer.ok THEN srv ELSE setServerStatus(srv, serverName, "online")

\* stopServer once stop_server is answered: the catch block only rethrows
stopServerAnswered(srv, serverName, answer) == srv

StatusEvent(kind, op, serverName, call, answer, issued, outcome, value, solo) ==
    [kind |-> kind, op |-> op, server |-> serverName, call |-> call, answer |-> answer,
     issued |-> issued, outcome |-> outcome, value |-> value, solo |-> solo,
     before |-> <<getServerStatus(servers, serverName)>>, seen |-> <<>>,
     cfg |-> DEFAULT_RCON_CONFIG, given |-> DEFAULT_RCON_CONFIG, fetched |-> ""]

\* startServer and stopServer never read servers: every write goes through the
\* functional updater of setServerStatus, so no rendered copy is kept for it
SetServerStatus ==
    /\ UNCHANGED <<hook, made, terminal>>
    /\ \E serverName \in Servers, status \in {"offline", "online"} :
        /\ ops < MaxOps
        /\ ops' = ops + 1
        /\ servers' = setServerStatus(servers, serverName, status)
        /\ tasks' = Disturb(tasks, "start", serverName)
        /\ ev' = StatusEvent("set", "setServerStatus", serverName, "", NoAnswer, "",
                             "returned", status, Alone("start", serverName))
        /\ UNCHANGED <<connections, rendered>>

StartInvoke ==
    /\ UNCHANGED <<hook, made, terminal>>
    /\ \E serverName \in Servers :
        /\ ops < MaxOps
        /\ HasFree
        /\ ops' = ops + 1
        /\ servers' = startServerBegin(servers, serverName)
        /\ tasks' = Append(Disturb(tasks, "start", serverName),
                        [IdleTask EXCEPT !.op = "start", !.server = serverName,
                                         !.pc = "get_server_loader_type",
                                         !.solo = Alone("start", serverName)])
        /\ ev' = StatusEvent("invoke", "start", serverName, "", NoAnswer,
                             "get_server_loader_type", "pending", "",
                             Alone("start", serverName))
        /\ UNCHANGED <<connections, rendered>>

StartResume ==
    /\ UNCHANGED <<hook, made, terminal>>
    /\ \E t \in Slots :
        /\ tasks[t].op = "start"
        /\ \E answer \in Answers(tasks[t].pc) :
            LET task == tasks[t]
                n == task.server
            IN  /\ servers' = startServerAnswered(servers, n, answer)
                /\ UNCHANGED <<connections, rendered, ops>>
                /\ IF ~answer.ok
                   THEN /\ tasks' = Settle(tasks, t)
                        /\ ev' = StatusEvent("resume", "start", n, task.pc, answer, "",
                                             "threw", answer.err, task.solo)
                   ELSE IF task.pc = "get_server_loader_type"
                   THEN /\ tasks' = [tasks EXCEPT ![t].pc = "start_server"]
                        /\ ev' = StatusEvent("resume", "start", n, task.pc, answer,
                                             "start_server", "pending", "", task.solo)
                   ELSE /\ tasks' = Settle(tasks, t)
                        /\ ev' = StatusEvent("resume", "start", n, task.pc, answer, "",
                                             "returned", "", task.solo)

StopInvoke ==
    /\ UNCHANGED <<hook, made, terminal>>
    /\ \E serverName \in Servers :
        /\ ops < MaxOps
        /\ HasFree
        /\ ops' = ops + 1
        /\ servers' = stopServerBegin(servers, serverName)
        /\ tasks' = Append(Disturb(tasks, "stop", serverName),
                        [IdleTask EXCEPT !.op = "stop", !.server = serverName,
                                         !.pc = "stop_server",
                                         !.solo = Alone("stop", serverName)])
        /\ ev' = StatusEvent("invoke", "stop", serverName, "", NoAnswer,
                             "stop_server", "pending", "", Alone("stop", serverName))
        /\ UNCHANGED <<connections, rendered>>

StopResume ==
    /\ UNCHANGED <<hook, made, terminal>>
    /\ \E t \in Slots :
        /\ tasks[t].op = "stop"
        /\ \E answer \in Answers(tasks[t].pc) :
            LET task == tasks[t]
                n == task.server
            IN  /\ servers' = stopServerAnswered(servers, n, answer)
                /\ tasks' = Settle(tasks, t)
                /\ ev' = StatusEvent("resume", "stop", n, task.pc, answer, "",
                                     IF answer.ok THEN "returned" ELSE "threw",
                                     IF answer.ok THEN "" ELSE answer.err, task.solo)
                /\ UNCHANGED <<connections, rendered, ops>>

StatusNext ==
    \/ SetServerStatus
    \/ StartInvoke
    \/ StartResume
    \/ StopInvoke
    \/ StopResume

StatusSpec == Init /\ [][StatusNext]_vars


Next ==
    \/ Render
    \/ ConnectInvoke
    \/ ConnectResume
    \/ DisconnectInvoke
    \/ DisconnectResume
    \/ ExecuteInvoke
    \/ ExecuteResume
    \/ MonitorTick
    \/ MonitorResume

Spec == Init /\ [][Next]_vars

\* the provider tree: RconProvider and ServerStateProvider mounted together,
\* their callers sharing one budget of operations
AppNext ==
    \/ Next
    \/ StatusNext

AppSpec == Init /\ [][AppNext]_vars

\* ----------------------------------------- the monitor left on its own
\* No caller acts: only the interval of the monitor effect and React run, on
\* a registry that a completed connect left showing servers connected, while
\* the backend holds no RCON session any more (its process running or not).
ConnectedEntry(serverName) ==
    [serverName |-> serverName, isConnected |-> TRUE, isConnecting |-> FALSE,
     error |-> Null, config |-> [DEFAULT_RCON_CONFIG EXCEPT !.password = "abc123"]]

\* what the backend answers while it holds no RCON session for any server:
\* is_rcon_connected is never true
DownAnswers(call) ==
    CASE call = "is_rcon_connected" -> {Resolve(FALSE, "")} \cup Rejections
      [] OTHER -> Answers(call)

LiveInit ==
    /\ connections \in {<<ConnectedEntry("s1")>>,
                         <<DefaultConnection("s2"), ConnectedEntry("s1")>>}
    /\ rendered \in {<<>>, connections}
    /\ servers = <<>>
    /\ tasks = <<>>
    /\ ops = 0
    /\ ev = Event("init", "none", "", "", NoAnswer, "", "", "", TRUE)
    /\ hook = HookInit
    /\ made = NoCalls
    /\ terminal = TerminalInit

\* setInterval fires: it is not a caller's operation and uses no budget
TimerTick ==
    /\ UNCHANGED ops
    /\ MonitorStart

\* the gateway answers the call the interval callback in slot t awaits
TimerAnswered(t) ==
    /\ t \in Slots
    /\ tasks[t].op = "monitor"
    /\ \E answer \in DownAnswers(tasks[t].pc) : MonitorAnswered(t, answer)

TimerResume == \E t \in 1..MaxTasks : TimerAnswered(t)

LiveNext ==
    \/ Render
    \/ TimerTick
    \/ TimerResume

\* React commits every pending render, the timer keeps firing and the gateway
\* answers every call
LiveSpec ==
    /\ LiveInit
    /\ [][LiveNext]_vars
    /\ WF_vars(Render)
    /\ WF_vars(TimerTick)
    /\ \A t \in 1..MaxTasks : WF_vars(TimerAnswered(t))

\* callers and the monitor acting on a registry that already shows a server
\* connected
WarmSpec == LiveInit /\ [][Next]_vars

\* ------------------------------------------- the two variants side by side
\* RconProvider and a useRcon hook mounted for the same server are driven by
\* the same operations, one at a time and each run to its end, the gateway
\* giving both the same answer to the same call (a sheet: call -> answer).
PairServer == "s1"

Sheets(calls) == {sheet \in [calls -> UNION {Answers(c) : c \in calls}] :
                     \A c \in calls : sheet[c] \in Answers(c)}

\* the calls of seq up to and including the first one the sheet rejects
RECURSIVE UpToFailure(_, _)
UpToFailure(seq, sheet) ==
    IF seq = <<>> THEN <<>>
    ELSE IF ~sheet[Head(seq)].ok THEN <<Head(seq)>>
    ELSE <<Head(seq)>> \o UpToFailure(Tail(seq), sheet)

Failed(seq, sheet) == seq # <<>> /\ ~sheet[seq[Len(seq)]].ok

\* -- RconProvider, an operation from its call to its end
providerConnectCalls(conns, sheet) ==
    IF connectGuard(conns, PairServer) THEN <<>>
    ELSE <<"get_server_rcon_password">> \o
         UpToFailure(<<"setup_rcon_for_server", "connect_rcon", "is_rcon_connected">>, sheet)

providerConnect(conns, config, sheet) ==
    LET calls == providerConnectCalls(conns, sheet)
        started == updateConnection(conns, PairServer, connectStartUpdates)
        dynamicConfig == [config EXCEPT !.password =
                            getServerRconPassword(sheet["get_server_rcon_password"])]
    IN  IF calls = <<>> THEN conns
        ELSE IF Failed(calls, sheet)
        THEN updateConnection(started, PairServer,
                              connectFailureUpdates(sheet[calls[Len(calls)]].err))
        ELSE updateConnection(started, PairServer,
                              connectSuccessUpdates(sheet["is_rcon_connected"].bool,
                                                    dynamicConfig))

providerExecute(conns, sheet) ==
    executeCommand(updateConnection(conns, PairServer, executeStartUpdates), PairServer,
                   sheet["execute_rcon_command"])

\* one run of the interval callback of the monitor effect
providerCheckCalls(conns, sheet) ==
    IF ~isConnected(conns, PairServer) THEN <<>>
    ELSE <<"is_server_running",
           monitorNextCall(checkServerRunning(sheet["is_server_running"]))>>

providerCheck(conns, sheet) ==
    IF ~isConnected(conns, PairServer) THEN conns
    ELSE IF ~checkServerRunning(sheet["is_server_running"])
    THEN disconnect(conns, PairServer, sheet["disconnect_rcon"])
    ELSE monitorStillConnected(conns, Get(conns, PairServer), sheet["is_rcon_connected"])

\* -- useRcon, the same
hookConnectCalls(h, sheet) ==
    IF h.isConnecting THEN <<>>
    ELSE <<"get_server_rcon_password">> \o
         UpToFailure(<<"setup_rcon_for_server", "connect_rcon">>, sheet)

\* setIsConnecting(true); setError(null); ... setIsConnected(true) once
\* connect_rcon resolved; catch: setError, setIsConnected(false); finally
\* setIsConnecting(false)
hookConnect(h, sheet) ==
    LET calls == hookConnectCalls(h, sheet)
    IN  IF calls = <<>> THEN h
        ELSE IF Failed(calls, sheet)
        THEN [isConnected |-> FALSE, isConnecting |-> FALSE,
              error |-> connectErrorMsg(sheet[calls[Len(calls)]].err)]
        ELSE [isConnected |-> TRUE, isConnecting |-> FALSE, error |-> Null]

hookDisconnect(h, sheet) ==
    IF sheet["disconnect_rcon"].ok
    THEN [h EXCEPT !.isConnected = FALSE, !.error = Null]
    ELSE [h EXCEPT !.error = disconnectErrorMsg(sheet["disconnect_rcon"].err)]

\* success: `if (!isConnected) setIsConnected(true)`; failure: setError,
\* setIsConnected(false)
hookExecute(h, sheet) ==
    IF sheet["execute_rcon_command"].ok
    THEN [h EXCEPT !.error = Null, !.isConnected = TRUE]
    ELSE [h EXCEPT !.error = executeErrorMsg(sheet["execute_rcon_command"].err),
                   !.isConnected = FALSE]

\* checkConnectionStatus, run by the interval of the hook
hookCheck(h, sheet) ==
    IF sheet["is_rcon_connected"].ok
    THEN [h EXCEPT !.isConnected = sheet["is_rcon_connected"].bool]
    ELSE [h EXCEPT !.isConnected = FALSE]

\* both variants ran operation op under one sheet and React rendered
PairStep(op, conns, h, calls) ==
    /\ ops < MaxOps
    /\ ops' = ops + 1
    /\ connections' = conns
    /\ rendered' = conns
    /\ hook' = h
    /\ made' = calls
    /\ ev' = Event("pair", op, PairServer, "", NoAnswer, "", "returned", "", TRUE)
    /\ UNCHANGED <<servers, tasks, terminal>>

PairConnect ==
    \E config \in Configs :
    \E sheet \in Sheets({"get_server_rcon_password", "setup_rcon_for_server",
                         "connect_rcon", "is_rcon_connected"}) :
        PairStep("connect", providerConnect(connections, config, sheet),
                 hookConnect(hook, sheet),
                 [provider |-> providerConnectCalls(connections, sheet),
                  hook |-> hookConnectCalls(hook, sheet)])

PairDisconnect ==
    \E sheet \in Sheets({"disconnect_rcon"}) :
        PairStep("disconnect", disconnect(connections, PairServer, sheet["disconnect_rcon"]),
                 hookDisconnect(hook, sheet),
                 [provider |-> <<"disconnect_rcon">>, hook |-> <<"disconnect_rcon">>])

PairExecute ==
    \E sheet \in Sheets({"execute_rcon_command"}) :
        PairStep("executeCommand", providerExecute(connections, sheet),
                 hookExecute(hook, sheet),
                 [provider |-> <<"execute_rcon_command">>,
                  hook |-> <<"execute_rcon_command">>])

PairCheck ==
    \E sheet \in Sheets({"is_server_running", "disconnect_rcon", "is_rcon_connected"}) :
        PairStep("check", providerCheck(connections, sheet), hookCheck(hook, sheet),
                 [provider |-> providerCheckCalls(connections, sheet),
                  hook |-> <<"is_rcon_connected">>])

PairNext ==
    \/ PairConnect
    \/ PairDisconnect
    \/ PairExecute
    \/ PairCheck

PairSpec == Init /\ [][PairNext]_vars

\* ------------------------------------------------------------- Terminal
\* What is typed is a sequence of characters, so that trim, toLowerCase,
\* startsWith and split work on it as they do on a string.
Commands ==
    {<<>>, <<" ", " ">>,
     <<"l", "i", "s", "t">>, <<" ", "s", "a", "y", " ", "h", "i", " ">>,
     <<"a", "-", "h", "e", "l", "p">>, <<"A", "-", "C", "L", "E", "A", "R">>,
     <<"a", "-", "c", "o", "n", "n", "e", "c", "t">>,
     <<"a", "-", "s", "t", "a", "r", "t">>, <<"a", "-", "s", "t", "o", "p", " ", "x">>,
     <<"a", "d", "v", "a", "n", "c", "e", "m", "e", "n", "t">>}

RECURSIVE Str(_)
Str(chars) == IF chars = <<>> THEN "" ELSE Head(chars) \o Str(Tail(chars))

RECURSIVE trimStart(_)
trimStart(chars) ==
    IF chars # <<>> /\ Head(chars) = " " THEN trimStart(Tail(chars)) ELSE chars

RECURSIVE trimEnd(_)
trimEnd(chars) ==
    IF chars # <<>> /\ chars[Len(chars)] = " "
    THEN trimEnd(SubSeq(chars, 1, Len(chars) - 1)) ELSE chars

trim(chars) == trimEnd(trimStart(chars))

Lower(c) ==
    CASE c = "A" -> "a" [] c = "C" -> "c" [] c = "L" -> "l"
      [] c = "E" -> "e" [] c = "R" -> "r" [] OTHER -> c

toLowerCase(chars) == [i \in DOMAIN chars |-> Lower(chars[i])]

startsWith(chars, prefix) ==
    Len(chars) >= Len(prefix) /\ SubSeq(chars, 1, Len(prefix)) = prefix

\* command.split(' ')[0]
RECURSIVE FirstWord(_)
FirstWord(chars) ==
    IF chars = <<>> \/ Head(chars) = " " THEN <<>>
    ELSE <<Head(chars)>> \o FirstWord(Tail(chars))

\* `command.toLowerCase().startsWith('a')`
isInternal(command) == startsWith(toLowerCase(command), <<"a">>)

helpText ==
    "Available internal commands: \n\n" \o
    "a-clear - Clear the terminal screen\n" \o
    "a-connect - Attempt to connect to RCON server\n" \o
    "a-start - Start the Minecraft server\n" \o
    "a-stop - Stop the Minecraft server gracefully\n" \o
    "a-help - Show this help message\n\n" \o
    "All other commands are sent to the Minecraft server via RCON."

\* executeInternalCommand for the cases that end without a gateway call
internalResponse(cmd, serverStatus) ==
    CASE cmd = "a-clear" -> "Terminal cleared"
      [] cmd = "a-connect" -> "RCON connections are now managed automatically per command."
      [] cmd = "a-start" -> "Server '" \o TerminalServer \o "' is already running"
      [] cmd = "a-stop" -> "Server '" \o TerminalServer \o "' is already stopped"
      [] cmd = "a-help" -> helpText
      [] OTHER -> "Unknown internal command: " \o cmd \o
                  ". Type 'ahelp' for available commands."

\* a-start and a-stop go to the gateway unless the status says there is no need
internalCall(cmd, serverStatus) ==
    CASE cmd = "a-start" /\ serverStatus # "online" -> "get_server_loader_type"
      [] cmd = "a-stop" /\ serverStatus # "offline" -> "stop_server"
      [] OTHER -> ""

commandLine(command) == TerminalLine("cmd", "> " \o Str(command), "command")

systemLine(response) == TerminalLine("resp", response, "system")

\* the lines after an internal command answered: a-clear has reset them
internalLines(ls, cmd, response) ==
    IF cmd = "a-clear" THEN <<welcomeLine, systemLine(response)>>
    ELSE Append(ls, systemLine(response))

\* variant: the error line repeats what the backend said
rconErrorLineEchoes(err) == TerminalLine("error", executeErrorMsg(err), "error")

\* the catch block of the RCON branch of handleCommandSubmit
rconErrorLine(err) == TerminalLine("error", "Server is not running or unreachable", "error")

\* `response || 'Command executed successfully (no output)'`
rconLine(answer) ==
    IF answer.ok
    THEN TerminalLine("resp", IF answer.str = "" THEN "Command executed successfully (no output)"
                              ELSE answer.str, "output")
    ELSE rconErrorLine(answer.err)

\* the twin run is given another error text by a failing execute_rcon_command
Twin(answer) ==
    IF answer.ok THEN answer ELSE Reject(CHOOSE e \in Errors : e # answer.err)

TerminalEvent(kind, command, call, answer, issued, outcome) ==
    Event(kind, "terminal", TerminalServer, call, answer, issued, outcome, Str(command), TRUE)

\* handleCommandSubmit up to its first await on the gateway
TerminalSubmit ==
    \E currentCommand \in Commands :
        LET command == trim(currentCommand)
            cmd == Str(toLowerCase(FirstWord(command)))
            serverStatus == getServerStatus(servers, TerminalServer)
            call == IF isInternal(command) THEN internalCall(cmd, serverStatus)
                    ELSE "execute_rcon_command"
            echo(ls) == Append(ls, commandLine(command))
            answered(ls) == internalLines(echo(ls), cmd, internalResponse(cmd, serverStatus))
            started == [IdleTask EXCEPT !.op = "terminal", !.server = TerminalServer,
                                        !.pc = call]
        IN  /\ ops < MaxOps
            /\ HasFree
            /\ ops' = ops + 1
            /\ UNCHANGED <<rendered, hook, made>>
            /\ IF command = <<>>
               THEN /\ UNCHANGED <<connections, servers, tasks, terminal>>
                    /\ ev' = TerminalEvent("invoke", command, "", NoAnswer, "", "returned")
               ELSE IF call = ""
               THEN /\ terminal' = [lines |-> answered(terminal.lines),
                                     twin |-> answered(terminal.twin)]
                    /\ UNCHANGED <<connections, servers, tasks>>
                    /\ ev' = TerminalEvent("invoke", command, "", NoAnswer, "", "returned")
               ELSE /\ terminal' = [lines |-> echo(terminal.lines),
                                     twin |-> echo(terminal.twin)]
                    /\ tasks' = Append(tasks, started)
                    /\ connections' = IF call = "execute_rcon_command"
                                       THEN updateConnection(connections, TerminalServer,
                                                             executeStartUpdates)
                                       ELSE connections
                    /\ servers' = CASE call = "get_server_loader_type" ->
                                            startServerBegin(servers, TerminalServer)
                                     [] call = "stop_server" ->
                                            stopServerBegin(servers, TerminalServer)
                                     [] OTHER -> servers
                    /\ ev' = TerminalEvent("invoke", command, "", NoAnswer, call, "pending")

\* the gateway answers the call a submitted command awaits
TerminalResume ==
    \E t \in Slots :
        /\ tasks[t].op = "terminal"
        /\ \E answer \in Answers(tasks[t].pc) :
            LET call == tasks[t].pc
                more == call = "get_server_loader_type" /\ answer.ok
                response ==
                    CASE call = "stop_server" /\ answer.ok ->
                            "Stopping server '" \o TerminalServer \o "' gracefully..."
                      [] call = "stop_server" -> "Failed to stop server: " \o answer.err
                      [] answer.ok -> "Starting server '" \o TerminalServer \o "'..."
                      [] OTHER -> "Failed to start server: " \o answer.err
                own(ls) == Append(ls, IF call = "execute_rcon_command" THEN rconLine(answer)
                                      ELSE systemLine(response))
                other(ls) == Append(ls, IF call = "execute_rcon_command"
                                        THEN rconLine(Twin(answer))
                                        ELSE systemLine(response))
            IN  /\ UNCHANGED <<rendered, ops, hook, made>>
                /\ connections' = IF call = "execute_rcon_command"
                                   THEN executeCommand(connections, TerminalServer, answer)
                                   ELSE connections
                /\ servers' = CASE call = "execute_rcon_command" -> servers
                                 [] call = "stop_server" ->
                                        stopServerAnswered(servers, TerminalServer, answer)
                                 [] OTHER ->
                                        startServerAnswered(servers, TerminalServer, answer)
                /\ tasks' = IF more THEN [tasks EXCEPT ![t].pc = "start_server"]
                            ELSE Settle(tasks, t)
                /\ terminal' = IF more THEN terminal
                               ELSE [lines |-> own(terminal.lines),
                                     twin |-> other(terminal.twin)]
                /\ ev' = TerminalEvent("resume", <<>>, call, answer,
                                       IF more THEN "start_server" ELSE "",
                                       IF more THEN "pending" ELSE "returned")

TerminalNext ==
    \/ TerminalSubmit
    \/ TerminalResume

TerminalSpec == Init /\ [][TerminalNext]_vars

\* ================================================================ claims
ConnectsInFlight(serverName) ==
    {t \in Slots : tasks[t].op = "connect" /\ tasks[t].server = serverName}

\* C1: for every server at most one connect attempt is in flight at any
\* time: a connect invoked while an earlier one has not resolved issues no
\* gateway call, so two connects in rapid succession give one connect_rcon.
C1_AtMostOneConnectInFlight ==
    \A n \in Servers : Cardinality(ConnectsInFlight(n)) <= 1

\* C2 (as stated): a connect that completes without throwing, with no other
\* operation on the server running meanwhile, leaves isConnected=true,
\* isConnecting=false and error=null.
C2_ConnectReturnedMeansConnected ==
    (ev.op = "connect" /\ ev.outcome = "returned" /\ ev.solo) =>
        /\ isConnected(connections, ev.server)
        /\ ~isConnecting(connections, ev.server)
        /\ getError(connections, ev.server) = Null

\* C2 (amended): a connect that got past the isConnecting guard and completes
\* without throwing, with no other operation on the server running meanwhile,
\* leaves isConnecting=false, error=null and isConnected equal to the answer
\* of the is_rcon_connected query.
C2_ConnectReturnedStoresAnswer ==
    (ev.op = "connect" /\ ev.kind = "resume" /\ ev.outcome = "returned" /\ ev.solo) =>
        /\ isConnected(connections, ev.server) = ev.answer.bool
        /\ ~isConnecting(connections, ev.server)
        /\ getError(connections, ev.server) = Null

C2_Witness ==
    /\ ev.op = "connect" /\ ev.kind = "resume" /\ ev.outcome = "returned" /\ ev.solo
    /\ ev.call = "is_rcon_connected" /\ ~ev.answer.bool
    /\ ~isConnected(connections, ev.server)

\* C3: when setup_rcon_for_server fails during connect, connect throws the
\* failure to its caller and the entry has isConnected=false,
\* isConnecting=false and a non-null error when it finishes.
C3_SetupFailureFailsConnect ==
    (ev.op = "connect" /\ ev.call = "setup_rcon_for_server" /\ ~ev.answer.ok) =>
        /\ ev.outcome = "threw"
        /\ ev.value = ev.answer.err
        /\ ~isConnected(connections, ev.server)
        /\ ~isConnecting(connections, ev.server)
        /\ getError(connections, ev.server) # Null

C3_Witness ==
    /\ ev.op = "connect" /\ ev.call = "setup_rcon_for_server" /\ ~ev.answer.ok
    /\ ev.outcome = "threw"
    /\ Has(connections, ev.server)

\* C4: an executeCommand that succeeds while the registry shows the server
\* disconnected leaves it shown connected and returns the gateway's response.
C4_ExecuteSuccessMarksConnected ==
    (/\ ev.op = "executeCommand" /\ ev.kind = "resume" /\ ev.answer.ok
     /\ ~ev.before[1].isConnected) =>
        /\ isConnected(connections, ev.server)
        /\ ev.outcome = "returned"
        /\ ev.value = ev.answer.str

\* C5: an executeCommand whose gateway call fails leaves isConnected=false
\* and a non-null error, and rethrows the failure.
C5_ExecuteFailureMarksDisconnected ==
    (ev.op = "executeCommand" /\ ev.kind = "resume" /\ ~ev.answer.ok) =>
        /\ ~isConnected(connections, ev.server)
        /\ getError(connections, ev.server) # Null
        /\ ev.outcome = "threw"
        /\ ev.value = ev.answer.err

\* C6: a failed is_server_running or is_rcon_connected query of a monitor
\* tick leaves the entry of that server unchanged and triggers no disconnect.
C6_PollFailureChangesNothing ==
    (/\ ev.op = "monitor" /\ ev.kind = "resume" /\ ~ev.answer.ok
     /\ ev.call \in {"is_server_running", "is_rcon_connected"}) =>
        /\ getConnection(connections, ev.server) = ev.before
        /\ ev.issued # "disconnect_rcon"

\* C7: when a monitor tick learns that the process of a server it holds as
\* connected is not running, it issues disconnect_rcon for that server.
C7_StoppedServerIsDisconnected ==
    /\ (/\ ev.op = "monitor" /\ ev.call = "is_server_running"
        /\ ev.answer.ok /\ ~ev.answer.bool) =>
            /\ ev.issued = "disconnect_rcon"
            /\ \E t \in Slots : /\ tasks[t].op = "monitor"
                                /\ tasks[t].server = ev.server
                                /\ tasks[t].pc = "disconnect_rcon"
    /\ \A t \in Slots : tasks[t].op = "monitor" =>
            /\ tasks[t].snap[tasks[t].idx].isConnected
            /\ tasks[t].snap[tasks[t].idx].serverName = tasks[t].server

C7_Witness ==
    /\ ev.op = "monitor" /\ ev.call = "is_server_running"
    /\ ev.answer.ok /\ ~ev.answer.bool
    /\ ev.issued = "disconnect_rcon"
    /\ \E t \in Slots : tasks[t].op = "monitor" /\ tasks[t].pc = "disconnect_rcon"

\* C8 (as stated): start sets the status online before any gateway call; a
\* failed loader query or start_server call sets it back to offline and is
\* rethrown; when both succeed the status is online when start returns.
C8_StartOptimisticThenOnline ==
    /\ (ev.op = "start" /\ ev.kind = "invoke") =>
            /\ getServerStatus(servers, ev.server) = "online"
            /\ ev.issued = "get_server_loader_type"
    /\ (ev.op = "start" /\ ev.kind = "resume" /\ ~ev.answer.ok) =>
            /\ getServerStatus(servers, ev.server) = "offline"
            /\ ev.outcome = "threw" /\ ev.value = ev.answer.err
    /\ (ev.op = "start" /\ ev.outcome = "returned") =>
            getServerStatus(servers, ev.server) = "online"

\* C8 (amended): as stated, but the status is online when a successful start
\* returns only if no other start, stop or setServerStatus of that server ran
\* during the call; start itself writes nothing on success.
C8_StartOptimisticThenOnlineAlone ==
    /\ (ev.op = "start" /\ ev.kind = "invoke") =>
            /\ getServerStatus(servers, ev.server) = "online"
            /\ ev.issued = "get_server_loader_type"
    /\ (ev.op = "start" /\ ev.kind = "resume" /\ ~ev.answer.ok) =>
            /\ getServerStatus(servers, ev.server) = "offline"
            /\ ev.outcome = "threw" /\ ev.value = ev.answer.err
    /\ (ev.op = "start" /\ ev.kind = "resume" /\ ev.answer.ok) =>
            getServerStatus(servers, ev.server) = ev.before[1]
    /\ (ev.op = "start" /\ ev.outcome = "returned" /\ ev.solo) =>
            getServerStatus(servers, ev.server) = "online"

C8_Witness ==
    /\ ev.op = "start" /\ ev.outcome = "returned" /\ ev.solo
    /\ ev.call = "start_server"
    /\ getServerStatus(servers, ev.server) = "online"

\* C9 (as stated): stop sets the status offline before the gateway call; when
\* stop_server fails the error is rethrown and the status stays offline.
C9_StopStaysOffline ==
    /\ (ev.op = "stop" /\ ev.kind = "invoke") =>
            /\ getServerStatus(servers, ev.server) = "offline"
            /\ ev.issued = "stop_server"
    /\ (ev.op = "stop" /\ ev.kind = "resume" /\ ~ev.answer.ok) =>
            /\ ev.outcome = "threw" /\ ev.value = ev.answer.err
            /\ getServerStatus(servers, ev.server) = "offline"

\* C9 (amended): as stated, but a failed stop leaves the status as it finds
\* it (it writes nothing), which is offline if no other start, stop or
\* setServerStatus of that server ran during the call.
C9_StopNeverReverts ==
    /\ (ev.op = "stop" /\ ev.kind = "invoke") =>
            /\ getServerStatus(servers, ev.server) = "offline"
            /\ ev.issued = "stop_server"
    /\ (ev.op = "stop" /\ ev.kind = "resume" /\ ~ev.answer.ok) =>
            /\ ev.outcome = "threw" /\ ev.value = ev.answer.err
            /\ getServerStatus(servers, ev.server) = ev.before[1]
            /\ ev.solo => getServerStatus(servers, ev.server) = "offline"

C9_Witness ==
    /\ ev.op = "stop" /\ ev.kind = "resume" /\ ~ev.answer.ok
    /\ ev.outcome = "threw" /\ ev.solo
    /\ getServerStatus(servers, ev.server) = "offline"

\* C10 (as stated): when setup_rcon_for_server fails with message M during
\* connect, the stored error is "Failed to setup RCON: M".
C10_SetupErrorText ==
    (ev.op = "connect" /\ ev.call = "setup_rcon_for_server" /\ ~ev.answer.ok) =>
        getError(connections, ev.server) = "Failed to setup RCON: " \o ev.answer.err

\* C10 (amended): when setup_rcon_for_server fails with message M during
\* connect, the stored error is "Failed to connect to RCON: M".
C10_SetupErrorTextConnect ==
    (ev.op = "connect" /\ ev.call = "setup_rcon_for_server" /\ ~ev.answer.ok) =>
        getError(connections, ev.server) = "Failed to connect to RCON: " \o ev.answer.err

C10_Witness ==
    /\ ev.op = "connect" /\ ev.call = "setup_rcon_for_server"
    /\ ev.answer = Reject("ECONNREFUSED")
    /\ getError(connections, ev.server) = "Failed to connect to RCON: ECONNREFUSED"

\* C11: the config connect(N, config) sends to setup_rcon_for_server and
\* stores in the entry when it returns has the host and port of the given
\* config and the fetched password when get_server_rcon_password succeeded;
\* when the fetch failed connect goes on (it does not throw) with the
\* password of DEFAULT_RCON_CONFIG.
C11_FetchedPasswordSupersedes ==
    /\ (ev.op = "connect" /\ ev.call = "get_server_rcon_password") =>
            /\ ev.outcome = "pending"
            /\ ev.issued = "setup_rcon_for_server"
            /\ ev.cfg.host = ev.given.host
            /\ ev.cfg.port = ev.given.port
            /\ ev.answer.ok => ev.cfg.password = ev.answer.str
            /\ ~ev.answer.ok => ev.cfg.password = DEFAULT_RCON_CONFIG.password
    /\ (ev.op = "connect" /\ ev.kind = "resume" /\ ev.outcome = "returned") =>
            /\ Get(connections, ev.server).config = ev.cfg
            /\ ev.cfg.host = ev.given.host
            /\ ev.cfg.port = ev.given.port
            /\ ev.cfg.password = IF ev.fetched # "" THEN ev.fetched
                                 ELSE DEFAULT_RCON_CONFIG.password

C11_Witness ==
    /\ ev.op = "connect" /\ ev.kind = "resume" /\ ev.outcome = "returned"
    /\ ev.given = CustomConfig
    /\ ev.fetched = "abc123"
    /\ Get(connections, ev.server).config =
            [host |-> "10.0.0.5", port |-> 25576, password |-> "abc123"]

\* C12: when the disconnect_rcon call of disconnect(N) succeeds the entry of N
\* has isConnected=false and error=null; when it fails with message M the
\* error is "Failed to disconnect from RCON: M" and isConnected has the value
\* it had before the answer arrived.
C12_DisconnectOutcome ==
    (ev.kind = "resume" /\ ev.call = "disconnect_rcon") =>
        /\ ev.answer.ok =>
                /\ ~isConnected(connections, ev.server)
                /\ getError(connections, ev.server) = Null
        /\ ~ev.answer.ok =>
                /\ getError(connections, ev.server) = disconnectErrorMsg(ev.answer.err)
                /\ getError(connections, ev.server) # Null
                /\ isConnected(connections, ev.server) =
                       (ev.before # <<>> /\ ev.before[1].isConnected)

C12_Witness ==
    /\ ev.op = "disconnect" /\ ev.kind = "resume" /\ ev.call = "disconnect_rcon"
    /\ ev.answer = Reject("ETIMEDOUT")
    /\ ev.before # <<>> /\ ev.before[1].isConnected
    /\ isConnected(connections, ev.server)
    /\ getError(connections, ev.server) = "Failed to disconnect from RCON: ETIMEDOUT"

C13_UserOps == {"connect", "disconnect", "executeCommand", "start", "stop"}

\* C13 (as stated): when a gateway call of a user-initiated operation
\* (connect, disconnect, executeCommand, start, stop) fails, the operation
\* rethrows the failure to its caller, and the RCON operations leave a
\* message in the error of the entry.
C13_EveryFailureRethrown ==
    (ev.op \in C13_UserOps /\ ev.kind = "resume" /\ ~ev.answer.ok) =>
        /\ ev.outcome = "threw"
        /\ ev.value = ev.answer.err
        /\ ev.op \in RconOps => getError(connections, ev.server) # Null

\* C13 (amended): a failed gateway call of connect (other than the password
\* fetch, whose failure connect absorbs), executeCommand, start or stop is
\* rethrown to the caller; connect and executeCommand leave a message in the
\* error of the entry and a failed start leaves the status offline. A failed
\* disconnect_rcon leaves a message in the error of the entry and disconnect
\* returns normally.
C13_FailureRethrownButDisconnect ==
    (ev.op \in C13_UserOps /\ ev.kind = "resume" /\ ~ev.answer.ok) =>
        /\ (ev.op # "disconnect" /\ ev.call # "get_server_rcon_password") =>
                /\ ev.outcome = "threw"
                /\ ev.value = ev.answer.err
        /\ ev.call = "get_server_rcon_password" => ev.outcome = "pending"
        /\ ev.op = "disconnect" =>
                /\ ev.outcome = "returned"
                /\ getError(connections, ev.server) = disconnectErrorMsg(ev.answer.err)
        /\ (ev.op \in {"connect", "executeCommand"} /\ ev.outcome = "threw") =>
                getError(connections, ev.server) # Null
        /\ ev.op = "start" => getServerStatus(servers, ev.server) = "offline"

C13_Witness ==
    /\ ev.op = "disconnect" /\ ev.kind = "resume" /\ ~ev.answer.ok
    /\ ev.outcome = "returned"
    /\ getError(connections, ev.server) # Null
    /\ \E n \in Servers : getServerStatus(servers, n) = "online"

\* the entry the first update of serverName must create in the step recorded
\* by e: the defaults overlaid with the fields that step passes
C14_FirstEntry(serverName, e) ==
    [serverName |-> serverName,
     isConnected |-> FALSE,
     isConnecting |-> (e.op = "connect"),
     error |-> IF e.op = "disconnect" /\ ~e.answer.ok
               THEN "Failed to disconnect from RCON: " \o e.answer.err
               ELSE Null,
     config |-> [host |-> "127.0.0.1", port |-> 25575, password |-> "minecraft"]]

\* the steps that call updateConnection on their server
C14_Updates(e) ==
    \/ e.op = "connect" /\ e.kind = "invoke" /\ e.outcome = "pending"
    \/ e.op = "connect" /\ e.kind = "resume" /\ e.outcome # "pending"
    \/ e.op = "executeCommand" /\ e.kind = "invoke"
    \/ e.op = "executeCommand" /\ e.kind = "resume" /\ ~e.answer.ok
    \/ e.op = "disconnect" /\ e.kind = "resume"

\* C14: getConnection(N) is absent for every N that updateConnection was never
\* called on, and the first updateConnection(N, fields) creates the entry
\* {serverName: N, isConnected: false, isConnecting: false, error: null,
\* config: DEFAULT_RCON_CONFIG} overlaid with fields.
C14_AbsentUntilFirstUpdate ==
    /\ \A n \in Servers : getConnection(connections, n) = <<>>
    /\ [][\A n \in Servers :
            ~Has(connections, n) =>
                /\ getConnection(connections, n) = <<>>
                /\ (C14_Updates(ev') /\ ev'.server = n) <=> Has(connections', n)
                /\ Has(connections', n) =>
                        getConnection(connections', n) = <<C14_FirstEntry(n, ev')>>]_vars

C14_Witness ==
    /\ ev.op = "connect" /\ ev.kind = "invoke" /\ ev.before = <<>>
    /\ getConnection(connections, ev.server) =
            <<[serverName |-> ev.server, isConnected |-> FALSE, isConnecting |-> TRUE,
               error |-> Null, config |-> DEFAULT_RCON_CONFIG]>>

\* C15: on a monitor tick, for a server held as connected whose process is
\* reported running, an is_rcon_connected answer of false makes isConnected
\* of that server false (the other fields stay), an answer of true leaves the
\* entry as it is.
C15_MonitorFollowsRconAnswer ==
    (/\ ev.op = "monitor" /\ ev.kind = "resume" /\ ev.call = "is_rcon_connected"
     /\ ev.answer.ok) =>
        /\ ~ev.answer.bool =>
                /\ ~isConnected(connections, ev.server)
                /\ getConnection(connections, ev.server) =
                        <<[ev.before[1] EXCEPT !.isConnected = FALSE]>>
        /\ ev.answer.bool => getConnection(connections, ev.server) = ev.before

C15_Witness ==
    /\ ev.op = "monitor" /\ ev.kind = "resume" /\ ev.call = "is_rcon_connected"
    /\ ev.answer.ok /\ ~ev.answer.bool
    /\ ev.before[1].isConnected
    /\ ~isConnected(connections, ev.server)

C16_CorrectionRejected ==
    /\ ev.op = "monitor" /\ ev.kind = "resume" /\ ~ev.answer.ok
    /\ ev.call \in {"disconnect_rcon", "is_rcon_connected"}

C17_HungConnectBlocksConnects ==
    \A n \in Servers :
        /\ ConnectsInFlight(n) # {} => isConnecting(connections, n)
        /\ (/\ ev.op = "connect" /\ ev.kind = "invoke" /\ ev.server = n
            /\ ev.before # <<>> /\ ev.before[1].isConnecting) =>
                /\ ev.outcome = "returned"
                /\ ev.issued = ""

\* C18: driven by the same operations and gateway answers for one server,
\* RconProvider and the useRcon hook make the same gateway calls and show the
\* same isConnected, isConnecting and error.
C18_VariantsAgree ==
    /\ made.provider = made.hook
    /\ hook.isConnected = isConnected(connections, PairServer)
    /\ hook.isConnecting = isConnecting(connections, PairServer)
    /\ hook.error = getError(connections, PairServer)

\* C19: when a command the terminal sent through RCON fails, the line it
\* appends is the fixed error line "Server is not running or unreachable",
\* whatever the backend error: a twin run that differs only in the error
\* texts of the failing execute_rcon_command calls shows the same lines.
C19_ErrorLineIgnoresBackendText ==
    /\ terminal.lines = terminal.twin
    /\ (ev.op = "terminal" /\ ev.call = "execute_rcon_command" /\ ~ev.answer.ok) =>
            terminal.lines[Len(terminal.lines)] =
                [id |-> "error", content |-> "Server is not running or unreachable",
                 type |-> "error"]

C19_Witness ==
    /\ ev.op = "terminal" /\ ev.call = "execute_rcon_command"
    /\ ev.answer = Reject("ETIMEDOUT")
    /\ Len(terminal.lines) = 3
    /\ terminal.lines[2].content = "> say hi"
    /\ terminal.lines[3].content = "Server is not running or unreachable"
    /\ terminal.twin = terminal.lines
    /\ getError(connections, TerminalServer) = "Failed to execute RCON command: ETIMEDOUT"

C21_Order ==
    <<"get_server_rcon_password", "setup_rcon_for_server", "connect_rcon",
      "is_rcon_connected">>

\* C21: one connect(N) issues get_server_rcon_password, setup_rcon_for_server,
\* connect_rcon, is_rcon_connected in this order, each when the one before
\* it was answered; the entry shows isConnecting=true when the first is
\* issued; after a failed setup_rcon_for_server it issues nothing more.
C21_CallsInOrder ==
    /\ (ev.op = "connect" /\ ev.kind = "invoke" /\ ev.outcome = "pending") =>
            /\ ev.issued = C21_Order[1]
            /\ isConnecting(connections, ev.server)
    /\ (ev.op = "connect" /\ ev.kind = "invoke" /\ ev.outcome # "pending") =>
            ev.issued = ""
    /\ (ev.op = "connect" /\ ev.kind = "resume") =>
            \E i \in 1..4 :
                /\ ev.call = C21_Order[i]
                /\ ev.outcome = "pending" => (i < 4 /\ ev.issued = C21_Order[i + 1])
                /\ ev.outcome # "pending" => ev.issued = ""
                /\ (i = 1 \/ (ev.answer.ok /\ i < 4)) <=> ev.outcome = "pending"
    /\ (ev.op = "connect" /\ ev.call = "setup_rcon_for_server" /\ ~ev.answer.ok) =>
            /\ ev.issued = ""
            /\ ev.outcome = "threw"
    /\ \A t \in Slots : tasks[t].op = "connect" =>
            \E i \in 1..4 : tasks[t].pc = C21_Order[i]

C21_Witness ==
    /\ ev.op = "connect" /\ ev.call = "setup_rcon_for_server" /\ ~ev.answer.ok
    /\ ev.issued = "" /\ ev.outcome = "threw"
    /\ ConnectsInFlight(ev.server) = {}

\* C22: in every state and for every server N, isConnecting(N) is true
\* exactly when a connect(N) is in flight, overlapping connects included.
C22_ConnectingIffInFlight ==
    \A n \in Servers :
        isConnecting(connections, n) <=> ConnectsInFlight(n) # {}

\* C23: a registry write that depends on the current value of the entry is
\* computed from the entry as it is when the write is made, no gateway call
\* being awaited in between: once the monitor's is_rcon_connected query is
\* answered, isConnected of the server equals the answer.
C23_MonitorWriteUsesLiveEntry ==
    (/\ ev.op = "monitor" /\ ev.kind = "resume" /\ ev.call = "is_rcon_connected"
     /\ ev.answer.ok) =>
        isConnected(connections, ev.server) = ev.answer.bool

\* C24: a connect(N) that gets past the guard on an entry showing
\* isConnected=true leaves isConnected=true and isConnecting=true together:
\* nothing in the pair of booleans prevents that state.
C24_ConnectOnConnectedShowsBoth ==
    (/\ ev.op = "connect" /\ ev.kind = "invoke" /\ ev.outcome = "pending"
     /\ ev.before # <<>> /\ ev.before[1].isConnected) =>
        /\ isConnected(connections, ev.server)
        /\ isConnecting(connections, ev.server)

C24_Witness ==
    \E n \in Servers :
        /\ ev.op = "connect" /\ ev.kind = "invoke" /\ ev.server = n
        /\ ev.before # <<>> /\ ev.before[1].isConnected /\ ~ev.before[1].isConnecting
        /\ isConnected(connections, n) /\ isConnecting(connections, n)

\* the fields the step recorded by e passes to updateConnection for its server
C25_Fields(e) ==
    CASE e.op = "connect" /\ e.kind = "invoke" /\ e.outcome = "pending" ->
            [isConnecting |-> TRUE, error |-> Null]
      [] e.op = "connect" /\ e.kind = "resume" /\ e.outcome = "threw" ->
            [isConnected |-> FALSE, isConnecting |-> FALSE,
             error |-> "Failed to connect to RCON: " \o e.answer.err]
      [] e.op = "connect" /\ e.kind = "resume" /\ e.outcome = "returned" ->
            [isConnected |-> e.answer.bool, isConnecting |-> FALSE, error |-> Null,
             config |-> e.cfg]
      [] e.op = "executeCommand" /\ e.kind = "invoke" -> [error |-> Null]
      [] e.op = "executeCommand" /\ e.kind = "resume" /\ ~e.answer.ok ->
            [error |-> "Failed to execute RCON command: " \o e.answer.err]
      [] e.kind = "resume" /\ e.call = "disconnect_rcon" /\ e.answer.ok ->
            [isConnected |-> FALSE, error |-> Null]
      [] e.kind = "resume" /\ e.call = "disconnect_rcon" /\ ~e.answer.ok ->
            [error |-> "Failed to disconnect from RCON: " \o e.answer.err]
      [] /\ e.op = "monitor" /\ e.kind = "resume" /\ e.call = "is_rcon_connected"
         /\ e.answer.ok /\ ~e.answer.bool -> [isConnected |-> FALSE]
      [] OTHER -> <<>>

\* C25: updateConnection on an existing entry changes the given fields of that
\* entry and no other field; every update is applied to the entry as the
\* updates before it left it, so none is lost under any interleaving of the
\* operations that make them.
C25_UpdateChangesGivenFieldsOnly ==
    [][\A n \in Servers :
        Has(connections, n) =>
            /\ Has(connections', n)
            /\ Get(connections', n) =
                    IF ev'.server = n THEN C25_Fields(ev') @@ Get(connections, n)
                    ELSE Get(connections, n)]_vars

C25_Witness ==
    /\ ev.op = "executeCommand" /\ ev.kind = "resume" /\ ~ev.answer.ok
    /\ ConnectsInFlight(ev.server) # {}
    /\ isConnecting(connections, ev.server)
    /\ getError(connections, ev.server) =
            "Failed to execute RCON command: " \o ev.answer.err

\* C26: a step of an operation on server N (connect, disconnect,
\* executeCommand, the monitor's check of N, start, stop, setServerStatus)
\* leaves the connection entry and the status of every other server as they
\* were, whatever else is in flight.
C26_OtherServersUntouched ==
    [][\A m \in Servers :
        m # ev'.server =>
            /\ getConnection(connections', m) = getConnection(connections, m)
            /\ getServerStatus(servers', m) = getServerStatus(servers, m)]_vars

C26_Witness ==
    /\ ev.op = "connect" /\ ev.kind = "resume" /\ ev.outcome = "threw"
    /\ ev.server = "s1"
    /\ ConnectsInFlight("s2") # {}
    /\ getConnection(connections, "s2") =
            <<[serverName |-> "s2", isConnected |-> FALSE, isConnecting |-> TRUE,
               error |-> Null, config |-> DEFAULT_RCON_CONFIG]>>

C27_InternalCommands == {"a-clear", "a-connect", "a-start", "a-stop", "a-help"}

\* C27: every non-empty command submitted in the terminal, other than the
\* internal commands a-clear, a-connect, a-start, a-stop and a-help, is sent
\* to the server through executeCommand.
C27_OtherCommandsGoToRcon ==
    \A c \in Commands :
        (/\ ev.op = "terminal" /\ ev.kind = "invoke"
         /\ trim(c) # <<>> /\ ev.value = Str(trim(c))
         /\ Str(toLowerCase(FirstWord(trim(c)))) \notin C27_InternalCommands) =>
            ev.issued = "execute_rcon_command"

\* C28: a monitor tick issues gateway calls only for the servers that the map
\* it iterates shows connected; a step of the tick never makes isConnected
\* true and never changes isConnecting, config or serverName of an entry: it
\* writes isConnected=false and / or error, or nothing.
C28_MonitorOnlyClearsConnected ==
    /\ (ev.op = "monitor" /\ ev.kind = "invoke") =>
            IF ev.outcome = "pending"
            THEN ev.seen # <<>> /\ ev.seen[1].isConnected
            ELSE /\ ev.issued = ""
                 /\ \A i \in DOMAIN rendered : ~rendered[i].isConnected
    /\ (ev.op = "monitor" /\ ev.kind = "resume") =>
            /\ ev.before # <<>>
            /\ Has(connections, ev.server)
            /\ LET was == ev.before[1]
                   now == Get(connections, ev.server)
               IN  /\ now.isConnecting = was.isConnecting
                   /\ now.config = was.config
                   /\ now.serverName = was.serverName
                   /\ now.isConnected => was.isConnected
                   /\ now.error # was.error => ev.call = "disconnect_rcon"
    /\ \A t \in Slots : tasks[t].op = "monitor" =>
            /\ tasks[t].idx \in DOMAIN tasks[t].snap
            /\ tasks[t].snap[tasks[t].idx].isConnected

C28_Witness ==
    /\ ev.op = "monitor" /\ ev.kind = "resume" /\ ev.call = "disconnect_rcon"
    /\ ~ev.answer.ok
    /\ isConnected(connections, ev.server)
    /\ getError(connections, ev.server) # Null
    /\ Get(connections, ev.server).config.password = "abc123"

\* C29: after a disconnect(N) has succeeded, isConnected(N) stays false until a
\* connect(N) invoked after it completes successfully.  A connect invoked after
\* the disconnect needs a step to start and further steps to complete, so the
\* step that follows the successful disconnect leaves isConnected(N) false,
\* whatever was in flight.
C29_StaysDisconnectedAfterDisconnect ==
    [][ (ev.op = "disconnect" /\ ev.kind = "resume" /\ ev.answer.ok)
            => ~isConnected(connections', ev.server) ]_vars

\* C30: after a start(N) has completed successfully, status(N) stays online
\* until stop(N) or setServerStatus(N, 'offline') is invoked.  So a step taken
\* right after a start(N) returned with status(N) online leaves it online,
\* unless that step is the invocation of stop(N) or of
\* setServerStatus(N, 'offline').
C30_StaysOnlineAfterStart ==
    [][ ( /\ ev.op = "start" /\ ev.kind = "resume" /\ ev.outcome = "returned"
          /\ getServerStatus(servers, ev.server) = "online" )
        => \/ getServerStatus(servers', ev.server) = "online"
           \/ ev'.server = ev.server /\ ev'.op = "stop" /\ ev'.kind = "invoke"
           \/ ev'.server = ev.server /\ ev'.op = "setServerStatus"
                                      /\ ev'.value = "offline" ]_vars

====
